---- MODULE Spec2Model ----
(***************************************************************************)
(* Model of chuk_mcp_artifact_server/tools.py: the descriptor normalizer   *)
(* (_info), the delivery selector (_presign_or_inline) and the tool        *)
(* handlers, running against the in-memory store of                        *)
(* tests/test_artifact_tools.py (FakeStore) extended with the failures the *)
(* handlers' except clauses provide for.                                   *)
(*                                                                         *)
(* Spec runs the tool calls one after another, SpecConc runs one           *)
(* write_file await by await among other calls, SpecList runs the listing  *)
(* tools on stores around the listing limit, SpecInfo runs _info alone.    *)
(*                                                                         *)
(* A Python str is a sequence of one-character strings; None is the one    *)
(* value that is no such sequence.  A dict is a function whose DOMAIN is   *)
(* the set of keys present.                                                *)
(***************************************************************************)
EXTENDS Integers, Sequences, FiniteSets, TLC

VARIABLES
    objects,              \* FakeStore._objects: artefact id -> raw metadata dict
    nextId,               \* number of ids FakeStore._new_id has handed out, plus one
    last,                 \* the last tool call: its arguments, backend calls, outcome
    written,              \* ids returned by successful write_file calls without overwrite id
    wr,                   \* a write_file call in flight: where it stands between its awaits
    raw,                  \* _info: the meta argument
    fallback_id,          \* _info: the fallback_id argument
    fallback_session_id,  \* _info: the fallback_session_id argument
    norm                  \* _info: what the call produced

vars == <<objects, nextId, last, written, wr, raw, fallback_id, fallback_session_id, norm>>

storeVars == <<objects, nextId, last, written, wr>>
infoVars  == <<raw, fallback_id, fallback_session_id, norm>>

----------------------------------------------------------------------------
(* Bounds *)

MaxIds    == 2      \* ids FakeStore._new_id may hand out in one behaviour
MaxKeyLen == 3      \* longest raw "key" string given to _info

----------------------------------------------------------------------------
(* Python values *)

None == <<"None">>

\* a key the dict does not hold
Absent == <<"Absent">>

\* bool(x) of a str-or-None value: None and "" are falsy
Truthy(x) == x /= None /\ x /= <<>>

\* a or b
Or(a, b) == IF Truthy(a) THEN a ELSE b

\* meta.get(k)
Get(meta, k) == IF k \in DOMAIN meta THEN meta[k] ELSE None

\* s.split("/")[-1]: what follows the last "/" of s, all of s when it has none
RECURSIVE LastSegment(_)
LastSegment(s) ==
    IF s = <<>> THEN <<>>
    ELSE LET init == SubSeq(s, 1, Len(s) - 1)
             c    == s[Len(s)]
         IN  IF c = "/" THEN <<>> ELSE Append(LastSegment(init), c)

\* x.startswith(p)
StartsWith(x, p) == Len(p) <= Len(x) /\ SubSeq(x, 1, Len(p)) = p

----------------------------------------------------------------------------
(* _info: raw store metadata -> ArtifactInfo, or the exception it raises *)

Raise(kind, what) == [ok |-> FALSE, error |-> kind, arg |-> what]

\* the id chain with "id" consulted before "artifact_id"
_art_id_id_first(meta, fid) ==
    Or(Get(meta, "id"),
       Or(Get(meta, "artifact_id"),
          Or(LastSegment(Or(Get(meta, "key"), <<>>)),
             fid)))

\* art_id of _info: artifact_id or id or key.split("/")[-1] or fallback_id
_art_id(meta, fid) ==
    Or(Get(meta, "artifact_id"),
       Or(Get(meta, "id"),
          Or(LastSegment(Or(Get(meta, "key"), <<>>)),
             fid)))

\* the fallback taking precedence over the record's own session
_session_id_fallback_first(meta, fsid) == Or(fsid, Get(meta, "session_id"))

\* "session_id" of _info: meta.get("session_id") or fallback_session_id
_session_id(meta, fsid) == Or(Get(meta, "session_id"), fsid)

_info(meta, fid, fsid) ==
    LET art_id == _art_id(meta, fid) IN
    IF ~Truthy(art_id) THEN Raise("KeyError", "artifact_id")
    ELSE IF "mime" \notin DOMAIN meta THEN Raise("KeyError", "mime")
    ELSE IF "bytes" \notin DOMAIN meta THEN Raise("KeyError", "bytes")
    ELSE IF "stored_at" \notin DOMAIN meta THEN Raise("KeyError", "stored_at")
    ELSE [ok |-> TRUE,
          info |-> [artifact_id |-> art_id,
                    filename    |-> Get(meta, "filename"),
                    mime        |-> meta["mime"],
                    bytes       |-> meta["bytes"],
                    stored_at   |-> meta["stored_at"],
                    session_id  |-> _session_id(meta, fsid)]]

----------------------------------------------------------------------------
(* The store: FakeStore, plus the failures the handlers catch.             *)
(* Every backend call takes the outcome f the backend chooses for it:      *)
(* "ok" runs FakeStore's code, "ProviderError" and "Exception" raise       *)
(* before anything is changed.                                             *)

\* FakeStore._new_id: uuid4().hex, never the same id twice; the n-th id handed
\* out is written "a" followed by the numeral of n
_new_id(n) == <<"a", ToString(n)>>

Ids == {_new_id(n) : n \in 1..MaxIds}

\* text of a ProviderError as write_file reads it: which of the two phrases
\* "Cross-session overwrite not permitted" and "belongs to session 'None'" it holds
Msg(cross, ofNone) == [cross |-> cross, ofNone |-> ofNone]
NoMsg == Msg(FALSE, FALSE)

\* f"{x}" of a str-or-None value: None is written as the word None
Format(x) == IF x = None THEN <<"N", "o", "n", "e">> ELSE x

Ret(objs, n, status, msg, val) ==
    [objects |-> objs, nextId |-> n, status |-> status, msg |-> msg, val |-> val]

Fault(f) == f \in {"ProviderError", "Exception"}

\* objs.pop(id, None)
Pop(objs, id) == [k \in DOMAIN objs \ {id} |-> objs[k]]

\* objs[id] = rec
Put(objs, id, rec) == [k \in DOMAIN objs \cup {id} |-> IF k = id THEN rec ELSE objs[k]]

\* FakeStore.store (summary and meta are carried through unread and left out)
StoreStore(objs, n, data, filename, session_id, f) ==
    IF Fault(f) THEN Ret(objs, n, f, NoMsg, None)
    ELSE LET artefact_id == _new_id(n)
         IN  Ret(Put(objs, artefact_id,
                     [artifact_id |-> artefact_id,
                      filename    |-> filename,
                      mime        |-> <<"m">>,
                      bytes       |-> Len(data),
                      stored_at   |-> <<"t">>,
                      session_id  |-> session_id]),
                 n + 1, "ok", NoMsg, artefact_id)

\* FakeStore.write_file.  f = "reject_legacy" is the backend of the module
\* docstring, which blocks the overwrite of an object whose session_id is None.
\* The message of the ProviderError reads "... belongs to session '{session_id}'".
\* f = "conflict_text" is a backend failing with that very text for a reason of
\* its own.
StoreWriteFile(objs, n, content, filename, session_id, overwrite_artifact_id, f) ==
    IF Fault(f) THEN Ret(objs, n, f, NoMsg, None)
    ELSE IF f = "conflict_text" THEN Ret(objs, n, "ProviderError", Msg(TRUE, TRUE), None)
    ELSE IF Truthy(overwrite_artifact_id)
    THEN IF overwrite_artifact_id \notin DOMAIN objs
         THEN Ret(objs, n, "KeyError", NoMsg, None)
         ELSE LET old == objs[overwrite_artifact_id] IN
              IF old.session_id \notin {session_id, None}
                 \/ (f = "reject_legacy" /\ old.session_id = None)
              THEN Ret(objs, n, "ProviderError",
                       Msg(TRUE, Format(old.session_id) = <<"N", "o", "n", "e">>), None)
              ELSE StoreStore(Pop(objs, overwrite_artifact_id), n,
                              content, filename, session_id, "ok")
    ELSE StoreStore(objs, n, content, filename, session_id, "ok")

\* FakeStore.metadata
StoreMetadata(objs, n, artefact_id, f) ==
    IF Fault(f) THEN Ret(objs, n, f, NoMsg, None)
    ELSE IF artefact_id \notin DOMAIN objs THEN Ret(objs, n, "KeyError", NoMsg, None)
    ELSE Ret(objs, n, "ok", NoMsg, objs[artefact_id])

\* FakeStore.retrieve
StoreRetrieve(objs, n, artefact_id, f) ==
    IF Fault(f) THEN Ret(objs, n, f, NoMsg, None)
    ELSE Ret(objs, n, "ok", NoMsg, <<"d", "u", "m", "m", "y">>)

\* base64.b64encode(data).decode(): four characters for every three bytes begun
B64Len(len) == 4 * ((len + 2) \div 3)
b64encode(data) == [i \in 1..B64Len(Len(data)) |-> "="]

\* FakeStore.list_by_prefix, in dict order (the order the ids were handed out)
ListUpTo(objs, k, session_id, prefix) ==
    LET Match(id) == /\ id \in DOMAIN objs
                     /\ objs[id].session_id = session_id
                     /\ StartsWith(objs[id].filename, prefix)
        ids == SelectSeq([j \in 1..k |-> _new_id(j)], Match)
    IN  [j \in 1..Len(ids) |-> objs[ids[j]]]

\* FakeStore.list_by_prefix: limit is accepted and not looked at
StoreListByPrefix(objs, n, session_id, prefix, limit, f) ==
    IF Fault(f) THEN Ret(objs, n, f, NoMsg, None)
    ELSE Ret(objs, n, "ok", NoMsg, ListUpTo(objs, n - 1, session_id, prefix))

\* FakeStore.get_directory_contents
StoreGetDirectoryContents(objs, n, session_id, directory, limit, f) ==
    StoreListByPrefix(objs, n, session_id, directory, limit, f)

\* FakeStore.presign_short
StorePresignShort(objs, n, artefact_id, f) ==
    IF Fault(f) THEN Ret(objs, n, f, NoMsg, None)
    ELSE Ret(objs, n, "ok", NoMsg, <<"h", "/">> \o artefact_id)

\* FakeStore.presign_medium; f = "null" is a backend that hands back no URL
StorePresignMedium(objs, n, artefact_id, f) ==
    IF Fault(f) THEN Ret(objs, n, f, NoMsg, None)
    ELSE IF f = "null" THEN Ret(objs, n, "ok", NoMsg, None)
    ELSE Ret(objs, n, "ok", NoMsg, <<"h", "/", "m", "/">> \o artefact_id)

\* FakeStore.delete
StoreDelete(objs, n, artefact_id, f) ==
    IF Fault(f) THEN Ret(objs, n, f, NoMsg, None)
    ELSE Ret(Pop(objs, artefact_id), n, "ok", NoMsg, artefact_id \in DOMAIN objs)

----------------------------------------------------------------------------
(* The tool handlers.  Each yields the store it leaves, the response or    *)
(* the kind of exception that reaches the caller, and the backend calls    *)
(* it issued, in order.                                                    *)

Call(name, r) == [call |-> name, out |-> r.status, msg |-> r.msg]

NoResp ==
    [status |-> "error", error |-> "", artifact_id |-> None, session_id |-> None,
     operation |-> "", download_url |-> None, data_base64 |-> None,
     success |-> FALSE, count |-> 0, artifacts |-> <<>>]

Out(objs, n, resp, calls) == [objects |-> objs, nextId |-> n, resp |-> resp, calls |-> calls]

\* an exception of the given kind leaves the handler
Err(objs, n, kind, calls) == Out(objs, n, [NoResp EXCEPT !.error = kind], calls)

\* a descriptor-shaped response
Descriptor(info) ==
    [NoResp EXCEPT !.status = "ok", !.artifact_id = info.artifact_id,
                   !.session_id = info.session_id]

\* the selector letting a presign failure out instead of falling back
_presign_or_inline_no_fallback(objs, n, artifact_id, presign, pf, rf) ==
    LET p  == StorePresignMedium(objs, n, artifact_id, pf)
        r  == StoreRetrieve(objs, n, artifact_id, rf)
        cp == IF presign THEN <<Call("presign_medium", p)>> ELSE <<>>
    IN  IF presign
        THEN [status |-> p.status, download_url |-> p.val, data_base64 |-> None, calls |-> cp]
        ELSE IF r.status = "ok"
        THEN [status |-> "ok", download_url |-> None, data_base64 |-> b64encode(r.val),
              calls |-> Append(cp, Call("retrieve", r))]
        ELSE [status |-> r.status, download_url |-> None, data_base64 |-> None,
              calls |-> Append(cp, Call("retrieve", r))]

\* _presign_or_inline
_presign_or_inline(objs, n, artifact_id, presign, pf, rf) ==
    LET p  == StorePresignMedium(objs, n, artifact_id, pf)
        r  == StoreRetrieve(objs, n, artifact_id, rf)
        cp == IF presign THEN <<Call("presign_medium", p)>> ELSE <<>>
    IN  IF presign /\ p.status = "ok"
        THEN [status |-> "ok", download_url |-> p.val, data_base64 |-> None, calls |-> cp]
        ELSE IF r.status = "ok"
        THEN [status |-> "ok", download_url |-> None, data_base64 |-> b64encode(r.val),
              calls |-> Append(cp, Call("retrieve", r))]
        ELSE [status |-> r.status, download_url |-> None, data_base64 |-> None,
              calls |-> Append(cp, Call("retrieve", r))]

\* _store_and_build_info: (art_id, info), or the exception that leaves it
_store_and_build_info(objs, n, content, filename, session_id, sf, mf) ==
    LET st == StoreStore(objs, n, content, filename, session_id, sf)
        c1 == <<Call("store", st)>>
    IN  IF st.status /= "ok"
        THEN [ok |-> FALSE, error |-> st.status, objects |-> st.objects,
              nextId |-> st.nextId, calls |-> c1]
        ELSE LET m  == StoreMetadata(st.objects, st.nextId, st.val, mf)
                 c2 == Append(c1, Call("metadata", m))
             IN  IF m.status /= "ok"
                 THEN [ok |-> FALSE, error |-> m.status, objects |-> st.objects,
                       nextId |-> st.nextId, calls |-> c2]
                 ELSE LET i == _info(m.val, st.val, session_id)
                      IN  IF ~i.ok
                          THEN [ok |-> FALSE, error |-> i.error, objects |-> st.objects,
                                nextId |-> st.nextId, calls |-> c2]
                          ELSE [ok |-> TRUE, art_id |-> st.val, info |-> i.info,
                                objects |-> st.objects, nextId |-> st.nextId, calls |-> c2]

\* list_session_files / list_directory after the backend listing l came back
Listing(l, sess, calls) ==
    IF l.status /= "ok" THEN Err(l.objects, l.nextId, "ValueError", calls)
    ELSE LET infos == [k \in 1..Len(l.val) |-> _info(l.val[k], None, sess)]
         IN  IF \E k \in 1..Len(infos) : ~infos[k].ok
             THEN Err(l.objects, l.nextId, "ValueError", calls)
             ELSE Out(l.objects, l.nextId,
                      [NoResp EXCEPT !.status = "ok", !.session_id = sess,
                                     !.count = Len(infos),
                                     !.artifacts = [k \in 1..Len(infos) |-> infos[k].info]],
                      calls)

\* limit=1000 of list_session_files and list_directory
ListLimit == 1000

\* list_by_prefix called with its two positional arguments exchanged
list_session_files_swapped(objs, n, sess, prefix, lf) ==
    LET l == StoreListByPrefix(objs, n, Or(prefix, <<>>), sess, ListLimit, lf)
    IN  Listing(l, sess, <<Call("list_by_prefix", l)>>)

\* list_session_files(session_id, prefix), sess the session validate_session_parameter gave
list_session_files(objs, n, sess, prefix, lf) ==
    LET l == StoreListByPrefix(objs, n, sess, Or(prefix, <<>>), ListLimit, lf)
    IN  Listing(l, sess, <<Call("list_by_prefix", l)>>)

\* list_directory(directory, session_id)
list_directory(objs, n, directory, sess, lf) ==
    LET l == StoreGetDirectoryContents(objs, n, sess, directory, ListLimit, lf)
    IN  Listing(l, sess, <<Call("get_directory_contents", l)>>)

\* the tail of upload_file and write_file: presign_short, then the result
Finish(objs, n, art_id, info, operation, pf, calls) ==
    LET p   == StorePresignShort(objs, n, art_id, pf)
        url == IF p.status = "ok" THEN p.val ELSE None
    IN  Out(objs, n,
            [Descriptor(info) EXCEPT !.download_url = url, !.operation = operation],
            Append(calls, Call("presign_short", p)))

\* upload_file; b64ok says whether data_base64 decodes, data is what it decodes to
upload_file(objs, n, sess, b64ok, data, filename, sf, mf, pf) ==
    IF ~b64ok THEN Err(objs, n, "ValueError", <<>>)
    ELSE LET sb == _store_and_build_info(objs, n, data, filename, sess, sf, mf)
         IN  IF ~sb.ok THEN Err(sb.objects, sb.nextId, sb.error, sb.calls)
             ELSE Finish(sb.objects, sb.nextId, sb.art_id, sb.info, "create", pf, sb.calls)

\* the operation tag fixed to "create"
_operation_always_create(overwrite_artifact_id) == "create"

\* op of write_file
_operation(overwrite_artifact_id) ==
    IF Truthy(overwrite_artifact_id) THEN "overwrite" ELSE "create"

\* the test without its first conjunct
Conflict_text_only(ow, msg) == msg.cross /\ msg.ofNone

\* write_file, the test that opens the recovery: an overwrite id was given and
\* the ProviderError text holds both phrases
Conflict(ow, msg) == Truthy(ow) /\ msg.cross /\ msg.ofNone

\* the recovery going straight to the re-store, the old object left in place
GracefulOverwrite_no_delete(objs, n, msg, sess, content, filename, ow, df, sf, mf, pf, calls) ==
    IF Conflict(ow, msg)
    THEN LET sb == _store_and_build_info(objs, n, content, filename, sess, sf, mf)
         IN  IF ~sb.ok THEN Err(sb.objects, sb.nextId, sb.error, calls \o sb.calls)
             ELSE Finish(sb.objects, sb.nextId, sb.art_id, sb.info,
                         _operation(ow), pf, calls \o sb.calls)
    ELSE Err(objs, n, "ValueError", calls)

\* the recovery putting the old object back when the re-creation fails
GracefulOverwrite_rollback(objs, n, msg, sess, content, filename, ow, df, sf, mf, pf, calls) ==
    IF Conflict(ow, msg)
    THEN LET d  == StoreDelete(objs, n, ow, df)
             c1 == Append(calls, Call("delete", d))
             sb == _store_and_build_info(d.objects, d.nextId, content, filename, sess, sf, mf)
         IN  IF ~sb.ok THEN Err(objs, sb.nextId, sb.error, c1 \o sb.calls)
             ELSE Finish(sb.objects, sb.nextId, sb.art_id, sb.info,
                         _operation(ow), pf, c1 \o sb.calls)
    ELSE Err(objs, n, "ValueError", calls)

\* the recovery going back to STORE.write_file after the delete
GracefulOverwrite_retrying(objs, n, msg, sess, content, filename, ow, df, sf, mf, pf, calls) ==
    IF Conflict(ow, msg)
    THEN LET d  == StoreDelete(objs, n, ow, df)
             w  == StoreWriteFile(d.objects, d.nextId, content, filename, sess, None, "ok")
             m  == StoreMetadata(w.objects, w.nextId, w.val, "ok")
             i  == _info(m.val, w.val, sess)
         IN  Finish(w.objects, w.nextId, w.val, i.info, _operation(ow), pf,
                    calls \o <<Call("delete", d), Call("write_file", w), Call("metadata", m)>>)
    ELSE Err(objs, n, "ValueError", calls)

\* write_file, the except ProviderError branch
GracefulOverwrite(objs, n, msg, sess, content, filename, ow, df, sf, mf, pf, calls) ==
    IF Conflict(ow, msg)
    THEN LET d  == StoreDelete(objs, n, ow, df)
             c1 == Append(calls, Call("delete", d))
             sb == _store_and_build_info(d.objects, d.nextId, content, filename, sess, sf, mf)
         IN  IF ~sb.ok THEN Err(sb.objects, sb.nextId, sb.error, c1 \o sb.calls)
             ELSE Finish(sb.objects, sb.nextId, sb.art_id, sb.info,
                         _operation(ow), pf, c1 \o sb.calls)
    ELSE Err(objs, n, "ValueError", calls)

\* write_file; content is ASCII, so content.encode(encoding) has one byte per character
write_file(objs, n, sess, content, filename, ow, wf, mf, df, sf, m2f, pf) ==
    LET w  == StoreWriteFile(objs, n, content, filename, sess, ow, wf)
        c1 == <<Call("write_file", w)>>
    IN  IF w.status = "ok"
        THEN LET m  == StoreMetadata(w.objects, w.nextId, w.val, mf)
                 c2 == Append(c1, Call("metadata", m))
             IN  IF m.status = "ok"
                 THEN LET i == _info(m.val, w.val, sess)
                      IN  IF i.ok
                          THEN Finish(w.objects, w.nextId, w.val, i.info,
                                      _operation(ow), pf, c2)
                          ELSE Err(w.objects, w.nextId, i.error, c2)
                 ELSE IF m.status = "ProviderError"
                 THEN GracefulOverwrite(w.objects, w.nextId, m.msg, sess, content,
                                        filename, ow, df, sf, m2f, pf, c2)
                 ELSE Err(w.objects, w.nextId, m.status, c2)
        ELSE IF w.status = "ProviderError"
        THEN GracefulOverwrite(w.objects, w.nextId, w.msg, sess, content,
                               filename, ow, df, sf, m2f, pf, c1)
        ELSE Err(w.objects, w.nextId, w.status, c1)

\* write_file one await at a time.  w is the call in flight: pc names the backend
\* call it makes next, resp is the result as far as it is built, deleted what
\* the recovery's STORE.delete came to.
Idle ==
    [pc |-> "idle", sess |-> None, filename |-> None, ow |-> None, art_id |-> None,
     calls |-> <<>>, deleted |-> "n/a", resp |-> NoResp]

Step(objs, n, w) == [objects |-> objs, nextId |-> n, wr |-> w]

\* an exception of the given kind ends the call
Fin(w, kind) == [w EXCEPT !.pc = "done", !.resp = [NoResp EXCEPT !.error = kind]]

\* await STORE.write_file(...), and the except clauses when it raises
AttemptOverwrite(objs, n, sess, content, filename, ow, wf) ==
    LET w == StoreWriteFile(objs, n, content, filename, sess, ow, wf)
        v == [Idle EXCEPT !.sess = sess, !.filename = filename, !.ow = ow,
                          !.calls = <<Call("write_file", w)>>]
    IN  Step(w.objects, w.nextId,
             IF w.status = "ok" THEN [v EXCEPT !.pc = "metadata", !.art_id = w.val]
             ELSE IF w.status = "ProviderError"
             THEN IF Conflict(ow, w.msg) THEN [v EXCEPT !.pc = "delete"]
                  ELSE Fin(v, "ValueError")
             ELSE Fin(v, w.status))

\* await STORE.metadata(artifact_id) on the fast path, then _info
ReadMetadata(objs, n, w, mf) ==
    LET m == StoreMetadata(objs, n, w.art_id, mf)
        v == [w EXCEPT !.calls = Append(w.calls, Call("metadata", m))]
    IN  Step(objs, n,
             IF m.status = "ok"
             THEN LET i == _info(m.val, w.art_id, w.sess)
                  IN  IF i.ok THEN [v EXCEPT !.pc = "presign", !.resp = Descriptor(i.info)]
                      ELSE Fin(v, i.error)
             ELSE IF m.status = "ProviderError"
             THEN IF Conflict(w.ow, m.msg) THEN [v EXCEPT !.pc = "delete"]
                  ELSE Fin(v, "ValueError")
             ELSE Fin(v, m.status))

\* the old object left where it is
DeleteOld_skipped(objs, n, w, df) ==
    Step(objs, n, [w EXCEPT !.pc = "store", !.deleted = "yes",
                            !.calls = Append(w.calls, [call |-> "delete", out |-> "ok",
                                                     msg |-> NoMsg])])

\* a delete that raises ends the call
DeleteOld_surfacing(objs, n, w, df) ==
    LET d == StoreDelete(objs, n, w.ow, df)
        v == [w EXCEPT !.calls = Append(w.calls, Call("delete", d)),
                       !.deleted = IF d.status /= "ok" THEN "raised"
                                   ELSE IF d.val THEN "yes" ELSE "no"]
    IN  Step(d.objects, d.nextId,
             IF d.status /= "ok" THEN Fin(v, "ValueError") ELSE [v EXCEPT !.pc = "store"])

\* await STORE.delete(overwrite_artifact_id), whatever it raises swallowed
DeleteOld(objs, n, w, df) ==
    LET d == StoreDelete(objs, n, w.ow, df)
    IN  Step(d.objects, d.nextId,
             [w EXCEPT !.pc = "store",
                       !.calls = Append(w.calls, Call("delete", d)),
                       !.deleted = IF d.status /= "ok" THEN "raised"
                                   ELSE IF d.val THEN "yes" ELSE "no"])

\* _store_and_build_info, await STORE.store(...)
Recreate(objs, n, w, content, sf) ==
    LET st == StoreStore(objs, n, content, w.filename, w.sess, sf)
        v  == [w EXCEPT !.calls = Append(w.calls, Call("store", st))]
    IN  Step(st.objects, st.nextId,
             IF st.status = "ok" THEN [v EXCEPT !.pc = "readback", !.art_id = st.val]
             ELSE Fin(v, st.status))

\* _store_and_build_info, await STORE.metadata(art_id), then _info
ReadBack(objs, n, w, mf) ==
    LET m == StoreMetadata(objs, n, w.art_id, mf)
        v == [w EXCEPT !.calls = Append(w.calls, Call("metadata", m))]
    IN  Step(objs, n,
             IF m.status /= "ok" THEN Fin(v, m.status)
             ELSE LET i == _info(m.val, w.art_id, w.sess)
                  IN  IF i.ok THEN [v EXCEPT !.pc = "presign", !.resp = Descriptor(i.info)]
                      ELSE Fin(v, i.error))

\* await STORE.presign_short(artifact_id), then the result
Presign(objs, n, w, pf) ==
    LET p   == StorePresignShort(objs, n, w.art_id, pf)
        url == IF p.status = "ok" THEN p.val ELSE None
    IN  Step(objs, n,
             [w EXCEPT !.pc = "done",
                       !.calls = Append(w.calls, Call("presign_short", p)),
                       !.resp = [w.resp EXCEPT !.download_url = url,
                                               !.operation = _operation(w.ow)]])

\* download_file
download_file(objs, n, artifact_id, presign, mf, pf, rf) ==
    LET m  == StoreMetadata(objs, n, artifact_id, mf)
        c1 == <<Call("metadata", m)>>
    IN  IF m.status /= "ok" THEN Err(objs, n, "ValueError", c1)
        ELSE LET i == _info(m.val, artifact_id, Get(m.val, "session_id"))
             IN  IF ~i.ok THEN Err(objs, n, i.error, c1)
                 ELSE LET extra == _presign_or_inline(objs, n, artifact_id, presign, pf, rf)
                      IN  IF extra.status /= "ok"
                          THEN Err(objs, n, extra.status, c1 \o extra.calls)
                          ELSE Out(objs, n,
                                   [Descriptor(i.info) EXCEPT
                                        !.download_url = extra.download_url,
                                        !.data_base64  = extra.data_base64],
                                   c1 \o extra.calls)

\* get_metadata
get_metadata(objs, n, artifact_id, mf) ==
    LET m  == StoreMetadata(objs, n, artifact_id, mf)
        c1 == <<Call("metadata", m)>>
    IN  IF m.status /= "ok" THEN Err(objs, n, "ValueError", c1)
        ELSE LET i == _info(m.val, artifact_id, Get(m.val, "session_id"))
             IN  IF ~i.ok THEN Err(objs, n, i.error, c1)
                 ELSE Out(objs, n, Descriptor(i.info), c1)

\* delete_file treating "nothing deleted" as a failure
delete_file_raises_on_absent(objs, n, artifact_id, df) ==
    LET d  == StoreDelete(objs, n, artifact_id, df)
        c1 == <<Call("delete", d)>>
    IN  IF d.status /= "ok" \/ ~d.val THEN Err(d.objects, d.nextId, "ValueError", c1)
        ELSE Out(d.objects, d.nextId,
                 [NoResp EXCEPT !.status = "ok", !.success = d.val,
                                !.artifact_id = artifact_id],
                 c1)

\* delete_file
delete_file(objs, n, artifact_id, df) ==
    LET d  == StoreDelete(objs, n, artifact_id, df)
        c1 == <<Call("delete", d)>>
    IN  IF d.status /= "ok" THEN Err(d.objects, d.nextId, "ValueError", c1)
        ELSE Out(d.objects, d.nextId,
                 [NoResp EXCEPT !.status = "ok", !.success = d.val,
                                !.artifact_id = artifact_id],
                 c1)

----------------------------------------------------------------------------
(* The normalizer on its own: every raw record shape within the bounds *)

\* the strings over {"/", "k"} of length at most n
RECURSIVE KeyStrings(_)
KeyStrings(n) ==
    IF n = 0 THEN {<<>>}
    ELSE LET shorter == KeyStrings(n - 1)
         IN  shorter \cup {Append(s, c) : s \in shorter, c \in {"/", "k"}}

RawFields == {"artifact_id", "id", "key", "session_id", "mime", "bytes", "stored_at"}

\* one choice per field, Absent standing for a key the dict does not hold
RawChoices ==
    [artifact_id : {Absent, None, <<>>, <<"a">>},
     id          : {Absent, None, <<>>, <<"b">>},
     key         : {Absent, None} \cup KeyStrings(MaxKeyLen),
     session_id  : {Absent, None, <<>>, <<"s">>},
     mime        : {Absent, <<"m">>},
     bytes       : {Absent, <<"2">>},
     stored_at   : {Absent, <<"t">>}]

RawOf(c) == [k \in {f \in RawFields : c[f] /= Absent} |-> c[k]]

NotCalled == Raise("not called", "")

InitInfo ==
    /\ objects = <<>> /\ nextId = 1 /\ written = {}
    /\ last = [op |-> "none"] /\ wr = Idle
    /\ \E c \in RawChoices : raw = RawOf(c)
    /\ fallback_id \in {None, <<>>, <<"f">>}
    /\ fallback_session_id \in {None, <<>>, <<"u">>}
    /\ norm = NotCalled

Normalize ==
    /\ norm = NotCalled
    /\ norm' = _info(raw, fallback_id, fallback_session_id)
    /\ UNCHANGED <<raw, fallback_id, fallback_session_id>>
    /\ UNCHANGED storeVars

NextInfo == Normalize

SpecInfo == InitInfo /\ [][NextInfo]_vars

----------------------------------------------------------------------------
(* The server: tool calls arrive one after another *)

\* two callers' sessions; a session id is any string, the second one is "None"
Sessions   == {<<"s">>, <<"N", "o", "n", "e">>}
Filenames  == {<<"d", "/", "f">>}
Prefixes   == {None, <<"d", "/">>, <<"x">>}
Content    == <<"h", "i">>

\* what the backend may do with a call
Outcomes   == {"ok", "ProviderError", "Exception"}
Caught     == {"ok", "Exception"}

\* the outcomes open to the k-th backend call named name: the backend chooses
\* one only for a call the handler reaches
Reached(calls, name, k) ==
    Cardinality({j \in 1..Len(calls) : calls[j].call = name}) >= k
Choices(calls, name, k, outcomes) ==
    IF Reached(calls, name, k) THEN outcomes ELSE {"ok"}

NoCall ==
    [op |-> "none", sess |-> None, arg |-> None, presign |-> FALSE,
     existed |-> FALSE, owner |-> Absent, resp |-> NoResp, calls |-> <<>>]

\* the session that owns id, Absent when the store holds no such id
Owner(objs, id) == IF id \in DOMAIN objs THEN objs[id].session_id ELSE Absent

Init ==
    /\ objects = <<>>
    /\ nextId = 1
    /\ last = NoCall
    /\ written = {}
    /\ wr = Idle
    /\ raw = <<>> /\ fallback_id = None /\ fallback_session_id = None
    /\ norm = NotCalled

\* arg is the artefact id, prefix or directory the call was given
Record(op, sess, arg, presign, o) ==
    [op |-> op, sess |-> sess, arg |-> arg, presign |-> presign,
     existed |-> arg \in DOMAIN objects, owner |-> Owner(objects, arg),
     resp |-> o.resp, calls |-> o.calls]

Apply(o) == objects' = o.objects /\ nextId' = o.nextId

\* an object left by an earlier deployment: stored with session_id None
StoreLegacy ==
    /\ nextId <= MaxIds
    /\ \E filename \in Filenames :
         LET st == StoreStore(objects, nextId, Content, filename, None, "ok")
         IN  /\ objects' = st.objects
             /\ nextId' = st.nextId
             /\ last' = [NoCall EXCEPT !.op = "store", !.arg = st.val]
    /\ UNCHANGED <<written, wr, infoVars>>

WriteFile ==
    /\ nextId <= MaxIds
    /\ \E sess \in Sessions, filename \in Filenames, ow \in {None, <<>>} \cup Ids :
       \E wf \in Outcomes \cup (IF Owner(objects, ow) = None THEN {"reject_legacy"} ELSE {})
                         \cup (IF Truthy(ow) THEN {} ELSE {"conflict_text"}) :
       LET W(mf, df, sf, m2f, pf) ==
               write_file(objects, nextId, sess, Content, filename, ow,
                          wf, mf, df, sf, m2f, pf)
           fast == W("ok", "ok", "ok", "ok", "ok").calls[1].out = "ok"
       IN
       \E mf \in IF fast THEN Outcomes ELSE {"ok"} :
       \E df \in Choices(W(mf, "ok", "ok", "ok", "ok").calls, "delete", 1, Caught) :
       \E sf \in Choices(W(mf, df, "ok", "ok", "ok").calls, "store", 1, Outcomes) :
       \E m2f \in IF fast THEN {"ok"}
                  ELSE Choices(W(mf, df, sf, "ok", "ok").calls, "metadata", 1, Outcomes) :
       \E pf \in Choices(W(mf, df, sf, m2f, "ok").calls, "presign_short", 1, Caught) :
         LET o == W(mf, df, sf, m2f, pf)
         IN  /\ Apply(o)
             /\ last' = Record("write_file", sess, ow, FALSE, o)
             /\ written' = IF o.resp.status = "ok" /\ ~Truthy(ow)
                           THEN written \cup {[id |-> o.resp.artifact_id, sess |-> sess]}
                           ELSE written
    /\ UNCHANGED <<wr, infoVars>>

UploadFile ==
    /\ nextId <= MaxIds
    /\ \E sess \in Sessions, filename \in Filenames, b64ok \in BOOLEAN :
       LET U(sf, mf, pf) ==
               upload_file(objects, nextId, sess, b64ok, Content, filename, sf, mf, pf)
       IN
       \E sf \in Choices(U("ok", "ok", "ok").calls, "store", 1, Outcomes) :
       \E mf \in Choices(U(sf, "ok", "ok").calls, "metadata", 1, Outcomes) :
       \E pf \in Choices(U(sf, mf, "ok").calls, "presign_short", 1, Caught) :
         LET o == U(sf, mf, pf)
         IN  /\ Apply(o)
             /\ last' = Record("upload_file", sess, None, FALSE, o)
    /\ UNCHANGED <<written, wr, infoVars>>

DownloadFile ==
    /\ \E artifact_id \in Ids, presign \in BOOLEAN, mf \in Caught :
       LET D(pf, rf) == download_file(objects, nextId, artifact_id, presign, mf, pf, rf)
       IN
       \E pf \in Choices(D("ok", "ok").calls, "presign_medium", 1, Caught \cup {"null"}) :
       \E rf \in Choices(D(pf, "ok").calls, "retrieve", 1, Caught) :
         LET o == D(pf, rf)
         IN  /\ Apply(o)
             /\ last' = Record("download_file", None, artifact_id, presign, o)
    /\ UNCHANGED <<written, wr, infoVars>>

GetMetadata ==
    /\ \E artifact_id \in Ids, mf \in Caught :
         LET o == get_metadata(objects, nextId, artifact_id, mf)
         IN  /\ Apply(o)
             /\ last' = Record("get_metadata", None, artifact_id, FALSE, o)
    /\ UNCHANGED <<written, wr, infoVars>>

DeleteFile ==
    /\ \E artifact_id \in Ids, df \in Caught :
         LET o == delete_file(objects, nextId, artifact_id, df)
         IN  /\ Apply(o)
             /\ last' = Record("delete_file", None, artifact_id, FALSE, o)
    /\ UNCHANGED <<written, wr, infoVars>>

ListSessionFiles ==
    /\ \E sess \in Sessions, prefix \in Prefixes, lf \in Caught :
         LET o == list_session_files(objects, nextId, sess, prefix, lf)
         IN  /\ Apply(o)
             /\ last' = Record("list_session_files", sess, prefix, FALSE, o)
    /\ UNCHANGED <<written, wr, infoVars>>

ListDirectory ==
    /\ \E sess \in Sessions, directory \in Prefixes \ {None}, lf \in Caught :
         LET o == list_directory(objects, nextId, directory, sess, lf)
         IN  /\ Apply(o)
             /\ last' = Record("list_directory", sess, directory, FALSE, o)
    /\ UNCHANGED <<written, wr, infoVars>>

Next ==
    \/ StoreLegacy
    \/ WriteFile
    \/ UploadFile
    \/ DownloadFile
    \/ GetMetadata
    \/ DeleteFile
    \/ ListSessionFiles
    \/ ListDirectory

Spec == Init /\ [][Next]_vars

----------------------------------------------------------------------------
(* The server with one write_file call in flight: at each of its awaits the *)
(* event loop may run another tool call, here a reader (get_metadata) or a  *)
(* delete_file, or an earlier deployment may leave an object.               *)

Take(s) == objects' = s.objects /\ nextId' = s.nextId /\ wr' = s.wr

WAttemptOverwrite ==
    /\ wr.pc \in {"idle", "done"}
    /\ nextId <= MaxIds
    /\ \E sess \in Sessions, filename \in Filenames, ow \in {None} \cup Ids :
       \E wf \in Outcomes \cup IF Owner(objects, ow) = None THEN {"reject_legacy"} ELSE {} :
         Take(AttemptOverwrite(objects, nextId, sess, Content, filename, ow, wf))
    /\ UNCHANGED <<last, written, infoVars>>

WReadMetadata ==
    /\ wr.pc = "metadata"
    /\ \E mf \in Outcomes : Take(ReadMetadata(objects, nextId, wr, mf))
    /\ UNCHANGED <<last, written, infoVars>>

WDeleteOld ==
    /\ wr.pc = "delete"
    /\ \E df \in Caught : Take(DeleteOld(objects, nextId, wr, df))
    /\ UNCHANGED <<last, written, infoVars>>

WRecreate ==
    /\ wr.pc = "store"
    /\ nextId <= MaxIds
    /\ \E sf \in Outcomes : Take(Recreate(objects, nextId, wr, Content, sf))
    /\ UNCHANGED <<last, written, infoVars>>

WReadBack ==
    /\ wr.pc = "readback"
    /\ \E mf \in Outcomes : Take(ReadBack(objects, nextId, wr, mf))
    /\ UNCHANGED <<last, written, infoVars>>

WPresign ==
    /\ wr.pc = "presign"
    /\ \E pf \in Caught :
         LET s == Presign(objects, nextId, wr, pf)
         IN  /\ Take(s)
             /\ written' = IF ~Truthy(wr.ow)
                           THEN written \cup {[id |-> s.wr.resp.artifact_id, sess |-> wr.sess]}
                           ELSE written
    /\ UNCHANGED <<last, infoVars>>

NextConc ==
    \/ StoreLegacy
    \/ WAttemptOverwrite
    \/ WReadMetadata
    \/ WDeleteOld
    \/ WRecreate
    \/ WReadBack
    \/ WPresign
    \/ GetMetadata
    \/ DeleteFile

SpecConc == Init /\ [][NextConc]_vars

----------------------------------------------------------------------------
(* Claims *)

Issued(name)  == \E k \in 1..Len(last.calls) : last.calls[k].call = name
Raised(name)  == \E k \in 1..Len(last.calls) :
                     last.calls[k].call = name /\ last.calls[k].out /= "ok"

\* the last call was a write_file that returned a result for an overwrite of a
\* legacy object (one whose owning session was None when the call was made)
LegacyOverwriteDone ==
    /\ last.op = "write_file"
    /\ last.resp.status = "ok"
    /\ Truthy(last.arg)
    /\ last.owner = None

Resolves(id) == StoreMetadata(objects, nextId, id, "ok").status = "ok"

\* what list_session_files(sess) hands back next, the backend answering
Listed(sess) == list_session_files(objects, nextId, sess, None, "ok").resp

InListing(resp, id) ==
    /\ resp.status = "ok"
    /\ \E k \in 1..Len(resp.artifacts) : resp.artifacts[k].artifact_id = id

\* C1 as stated: a write_file that returns a result for an overwrite of a legacy
\* object L gives an artifact_id other than L, L no longer resolves, and the
\* caller's session lists the new id, whatever the intermediate backend calls did.
C1_LegacyOverwriteRemovesOld ==
    LegacyOverwriteDone =>
        /\ last.resp.artifact_id /= last.arg
        /\ ~Resolves(last.arg)
        /\ InListing(Listed(last.sess), last.resp.artifact_id)

\* C1 as amended: the new id differs from L and is listed in the caller's session
\* on both paths, whatever the backend did; L no longer resolves unless the
\* recovery path's delete raised, and then (the failure being swallowed) L still
\* resolves.
C1_LegacyOverwrite ==
    LegacyOverwriteDone =>
        /\ last.resp.artifact_id /= last.arg
        /\ InListing(Listed(last.sess), last.resp.artifact_id)
        /\ Resolves(last.arg) <=> Raised("delete")

\* the recovery path ran to its end with the delete succeeding
C1_Witness ==
    /\ LegacyOverwriteDone
    /\ last.calls[1].out = "ProviderError"
    /\ Issued("delete") /\ ~Raised("delete")

\* C2: a write_file given an overwrite id that returns a result returns
\* operation "overwrite" and the caller's session, on the fast path and on the
\* recovery path alike.
C2_OverwriteDescriptor ==
    (last.op = "write_file" /\ last.resp.status = "ok" /\ Truthy(last.arg)) =>
        /\ last.resp.operation = "overwrite"
        /\ last.resp.session_id = last.sess

\* an overwrite that went through delete-then-recreate and returned
C2_Witness ==
    /\ last.op = "write_file" /\ last.resp.status = "ok" /\ Truthy(last.arg)
    /\ Issued("delete") /\ Issued("store")

\* C3 as stated: every result of download_file has exactly one of download_url
\* and data_base64 non-null, whatever presign_medium and retrieve did, a
\* presign_medium that returns no URL included.
C3_ExactlyOneDelivery ==
    (last.op = "download_file" /\ last.resp.status = "ok") =>
        (last.resp.download_url /= None) /= (last.resp.data_base64 /= None)

\* download_file(id, presign=true) found the artefact and presign_medium raised
PresignFailed ==
    /\ last.op = "download_file"
    /\ last.presign
    /\ Raised("presign_medium")

\* C4 as stated: when presign_medium raises, download_file always returns a
\* response with download_url null and data_base64 non-null.
C4_PresignFailureAlwaysInline ==
    PresignFailed =>
        /\ last.resp.status = "ok"
        /\ last.resp.download_url = None
        /\ last.resp.data_base64 /= None

\* C4 as amended: when presign_medium raises, its failure is not what reaches the
\* caller: retrieve is called, and the call returns download_url null and
\* data_base64 non-null if retrieve returns, and fails only if retrieve raises.
C4_PresignFailureFallsThrough ==
    PresignFailed =>
        /\ Issued("retrieve")
        /\ IF Raised("retrieve")
           THEN last.resp.status = "error"
           ELSE /\ last.resp.status = "ok"
                /\ last.resp.download_url = None
                /\ last.resp.data_base64 /= None

\* presign raised and the payload came back inline
C4_Witness ==
    /\ PresignFailed
    /\ last.resp.status = "ok"
    /\ last.resp.data_base64 /= None

DescriptorTools == {"upload_file", "write_file", "download_file", "get_metadata"}
ListingTools    == {"list_session_files", "list_directory"}

\* C5 as stated: no response carries a descriptor whose session_id is null,
\* legacy objects included.
C5_NoNullSession ==
    last.resp.status = "ok" =>
        /\ last.op \in DescriptorTools => last.resp.session_id /= None
        /\ last.op \in ListingTools =>
               \A k \in 1..Len(last.resp.artifacts) :
                   last.resp.artifacts[k].session_id /= None

\* C6 as stated: whatever step fails, the caller gets the one request-error
\* kind (ValueError), never a raw backend or missing-key exception.
C6_UniformRequestError ==
    (last.op \notin {"none", "store"} /\ last.resp.status = "error") =>
        last.resp.error = "ValueError"

\* C7 as stated: delete_file on an id the store does not hold returns
\* {success: false, artifact_id: id} and never raises; on an id it holds it
\* returns success true.
C7_DeleteNeverRaises ==
    last.op = "delete_file" =>
        /\ last.resp.status = "ok"
        /\ last.resp.artifact_id = last.arg
        /\ last.resp.success = last.existed

\* C7 as amended: whenever the backend's delete call returns, delete_file returns
\* {success, artifact_id: id} with success false for an id the store does not
\* hold and true for one it holds, and the id is gone afterwards; delete_file
\* raises (the request error) only when the backend's delete call itself raises,
\* and the store is then as it was.
C7_DeleteIdempotent ==
    last.op = "delete_file" =>
        IF Raised("delete")
        THEN /\ last.resp.status = "error" /\ last.resp.error = "ValueError"
             /\ (last.arg \in DOMAIN objects) = last.existed
        ELSE /\ last.resp.status = "ok"
             /\ last.resp.artifact_id = last.arg
             /\ last.resp.success = last.existed
             /\ last.arg \notin DOMAIN objects

\* a second delete: the id was handed out earlier and is no longer held
C7_Witness ==
    /\ last.op = "delete_file"
    /\ ~last.existed
    /\ \E k \in 1..(nextId - 1) : _new_id(k) = last.arg
    /\ last.resp.status = "ok" /\ ~last.resp.success

\* C8: once write_file without overwrite id has returned id a for session S, and
\* while a is still held, list_session_files(S) without prefix hands back a
\* listing holding a descriptor with artifact_id a and session_id S; when a is the
\* only object of the store (the write started from an empty store) count is 1.
C8_WrittenFileIsListed ==
    \A w \in written :
        w.id \in DOMAIN objects =>
            LET r == Listed(w.sess) IN
            /\ r.status = "ok"
            /\ \E k \in 1..Len(r.artifacts) :
                   /\ r.artifacts[k].artifact_id = w.id
                   /\ r.artifacts[k].session_id = w.sess
            /\ DOMAIN objects = {w.id} => r.count = 1
            /\ (last.op = "list_session_files" /\ last.sess = w.sess
                    /\ last.arg = None /\ last.resp.status = "ok") => last.resp = r

\* a listing of S came back while a file written into S, and another object, are held
C8_Witness ==
    /\ last.op = "list_session_files" /\ last.arg = None /\ last.resp.status = "ok"
    /\ \E w \in written :
          /\ w.sess = last.sess /\ w.id \in DOMAIN objects
          /\ DOMAIN objects /= {w.id}
          /\ InListing(last.resp, w.id)

\* the overwrite attempt of the last write_file was rejected as a cross-session
\* overwrite of an object whose owning session is None
LegacyConflict ==
    /\ Truthy(last.arg)
    /\ last.calls[1].out = "ProviderError" /\ last.calls[1].msg.cross
    /\ last.owner = None

\* C13 as stated: write_file issues the recovery's delete exactly when an
\* overwrite id was given and the overwrite attempt was rejected as a
\* cross-session overwrite of an object owned by None; on any other error of the
\* attempt it issues no delete and no store and fails; it never deletes an
\* object owned by a session that is neither None nor the caller's.
C13_RecoveryOnlyForLegacy ==
    last.op = "write_file" =>
        /\ Issued("delete") <=> LegacyConflict
        /\ (last.calls[1].out /= "ok" /\ ~LegacyConflict) =>
               /\ ~Issued("delete") /\ ~Issued("store")
               /\ last.resp.status = "error"
        /\ Issued("delete") => last.owner \in {None, last.sess}

\* how many times the last tool call issued the backend call name
Count(name) == Cardinality({k \in 1..Len(last.calls) : last.calls[k].call = name})

\* C15: no tool call issues a backend call twice: one write_file issues
\* STORE.write_file once and first, never again after a conflict, and delete,
\* store and presign_short at most once each; one download_file issues
\* presign_medium and retrieve at most once each; every tool call ends, in a
\* result or an error, after at most five backend calls.
C15_NoRetry ==
    /\ last.op = "write_file" =>
          /\ Count("write_file") = 1 /\ last.calls[1].call = "write_file"
          /\ Count("delete") <= 1 /\ Count("store") <= 1
          /\ Count("metadata") <= 1 /\ Count("presign_short") <= 1
    /\ last.op = "download_file" =>
          /\ Count("metadata") = 1
          /\ Count("presign_medium") <= 1 /\ Count("retrieve") <= 1
          /\ Len(last.calls) <= 3
    /\ Len(last.calls) <= 5
    /\ last.resp.status \in {"ok", "error"}

\* a write_file that went all the way through the recovery: five backend calls
C15_Witness ==
    /\ last.op = "write_file" /\ last.resp.status = "ok"
    /\ Len(last.calls) = 5
    /\ Count("delete") = 1 /\ Count("store") = 1

\* the step is a write_file call given no overwrite id
PlainWrite == last'.op = "write_file" /\ ~Truthy(last'.arg)

\* C16: a write_file given no overwrite id (None or "") issues no delete, and
\* every object the store held before the call is held unchanged after it,
\* whatever the backend write did, a ProviderError with the conflict text
\* included.
C16_PlainWriteKeepsObjects ==
    [][PlainWrite =>
          /\ \A k \in 1..Len(last'.calls) : last'.calls[k].call /= "delete"
          /\ DOMAIN objects \subseteq DOMAIN objects'
          /\ \A id \in DOMAIN objects : objects'[id] = objects[id]]_vars

\* a write_file without overwrite id failed on a ProviderError carrying the
\* conflict text while the store held an object
C16_Witness ==
    /\ last.op = "write_file" /\ ~Truthy(last.arg)
    /\ last.calls[1].out = "ProviderError"
    /\ last.calls[1].msg.cross /\ last.calls[1].msg.ofNone
    /\ last.resp.status = "error" /\ last.resp.error = "ValueError"
    /\ objects /= <<>>

\* the last write_file went into the recovery, its delete removed the old
\* object, and the store or the metadata read-back after it raised
RecreateFailed ==
    /\ last.op = "write_file"
    /\ Issued("delete") /\ ~Raised("delete") /\ last.existed
    /\ \/ Raised("store")
       \/ /\ Issued("store")
          /\ last.calls[Len(last.calls)].call = "metadata"
          /\ last.calls[Len(last.calls)].out /= "ok"

\* C17: when the recovery's delete has removed the old object and the
\* re-creation (store, or the metadata read-back after it) fails, write_file
\* ends in an error and nothing is put back: the old id, held before the call,
\* is held no longer; when it is the store that failed, the store has lost the
\* old object and gained none.
C17_NoRollback ==
    RecreateFailed =>
        /\ last.resp.status = "error"
        /\ last.arg \notin DOMAIN objects
        /\ Raised("store") => Cardinality(DOMAIN objects) < nextId - 1

\* the store of the replacement raised after the old object had been deleted
C17_Witness ==
    /\ RecreateFailed
    /\ Raised("store")
    /\ last.resp.status = "error"
    /\ ~Resolves(last.arg)

----------------------------------------------------------------------------
(* Claims about the normalizer, under SpecInfo *)

NonEmpty(v) == v \notin {None, <<>>}

\* the value the raw record holds under k, None when it holds none
Field(k) == IF k \in DOMAIN raw THEN raw[k] ELSE None

\* the last "/"-separated segment of s: its longest suffix without a "/"
Segment(s) ==
    CHOOSE t \in {SubSeq(s, j, Len(s)) : j \in 1..(Len(s) + 1)} :
        /\ \A i \in 1..Len(t) : t[i] /= "/"
        /\ Len(t) = Len(s) \/ s[Len(s) - Len(t)] = "/"

\* the four sources of an artifact_id, in the stated order
Candidates ==
    <<Field("artifact_id"),
      Field("id"),
      IF NonEmpty(Field("key")) THEN Segment(Field("key")) ELSE <<>>,
      fallback_id>>

FirstNonEmpty ==
    LET i == CHOOSE j \in 1..4 :
                 NonEmpty(Candidates[j]) /\ \A h \in 1..(j - 1) : ~NonEmpty(Candidates[h])
    IN  Candidates[i]

Normalized == norm /= NotCalled

\* C9: _info takes the first non-empty of raw artifact_id, raw id, the last
\* "/"-separated segment of raw key, and fallback_id; it raises the
\* missing-identifier error (KeyError "artifact_id") exactly when all four are
\* empty or absent; a descriptor it returns never has an empty artifact_id.
C9_ArtifactIdResolution ==
    Normalized =>
        /\ norm = Raise("KeyError", "artifact_id")
               <=> \A j \in 1..4 : ~NonEmpty(Candidates[j])
        /\ norm.ok => /\ norm.info.artifact_id = FirstNonEmpty
                      /\ NonEmpty(norm.info.artifact_id)

\* the id came from the last segment of a key that holds a "/"
C9_Witness ==
    /\ Normalized /\ norm.ok
    /\ ~NonEmpty(Field("artifact_id")) /\ ~NonEmpty(Field("id"))
    /\ "key" \in DOMAIN raw /\ raw["key"] = <<"k", "/", "k">>
    /\ fallback_id = <<"f">>
    /\ norm.info.artifact_id = <<"k">>

\* C10: the session_id of the descriptor is the raw session_id when the record
\* has a non-empty one, and otherwise exactly the fallback_session_id given.
C10_SessionIdResolution ==
    (Normalized /\ norm.ok) =>
        norm.info.session_id =
            IF NonEmpty(Field("session_id")) THEN raw["session_id"]
            ELSE fallback_session_id

\* a record without session_id normalized with a fallback session
C10_Witness ==
    /\ Normalized /\ norm.ok
    /\ "session_id" \notin DOMAIN raw
    /\ fallback_session_id = <<"u">>
    /\ norm.info.session_id = <<"u">>

----------------------------------------------------------------------------
(* The listing tools on stores of every size around the limit *)

StoreSizes == {0, 1, ListLimit - 1, ListLimit, ListLimit + 1}

\* a store holding size objects, all written into session sess
Populated(size, sess, filename) ==
    [id \in {_new_id(k) : k \in 1..size} |->
        [artifact_id |-> id, filename |-> filename, mime |-> <<"m">>,
         bytes |-> Len(Content), stored_at |-> <<"t">>, session_id |-> sess]]

InitList ==
    /\ \E size \in StoreSizes, sess \in Sessions, filename \in Filenames :
          /\ objects = Populated(size, sess, filename)
          /\ nextId = size + 1
    /\ last = NoCall
    /\ written = {}
    /\ wr = Idle
    /\ raw = <<>> /\ fallback_id = None /\ fallback_session_id = None
    /\ norm = NotCalled

NextList ==
    \/ ListSessionFiles
    \/ ListDirectory

SpecList == InitList /\ [][NextList]_vars

----------------------------------------------------------------------------
(* Claims about the listing tools, under SpecList *)

\* C12 as stated: every result of list_session_files and list_directory holds at
\* most 1000 artefacts and its count is the length of the artifacts list,
\* whatever the backend listing and the size of the store.
C12_ListingBounded ==
    (last.op \in ListingTools /\ last.resp.status = "ok") =>
        /\ Len(last.resp.artifacts) <= ListLimit
        /\ last.resp.count = Len(last.resp.artifacts)

----------------------------------------------------------------------------
(* Claims about a write_file call in flight, under SpecConc *)

\* the call in flight stands between a delete that removed the old object and
\* the store of its replacement
InWindow == wr.pc = "store" /\ wr.deleted = "yes"

\* C11: whenever a write_file in recovery stands between DELETE_OLD and RECREATE,
\* the old id does not resolve (a get_metadata of it fails with the request
\* error), the replacement does not exist yet (the call has issued no store and
\* holds no new id), and no lock keeps a reader out: get_metadata,
\* download_file and list_session_files can all run there.
C11_RecoveryWindow ==
    InWindow =>
        /\ ~Resolves(wr.ow)
        /\ get_metadata(objects, nextId, wr.ow, "ok").resp.error = "ValueError"
        /\ wr.art_id = None
        /\ ~\E k \in 1..Len(wr.calls) : wr.calls[k].call = "store"
        /\ ENABLED GetMetadata /\ ENABLED DownloadFile /\ ENABLED ListSessionFiles

\* a reader ran inside the window: its get_metadata of the old id found nothing
C11_Witness ==
    /\ InWindow
    /\ last.op = "get_metadata" /\ last.arg = wr.ow
    /\ ~last.existed
    /\ last.calls[1].out = "KeyError"
    /\ last.resp.status = "error"

\* the place of the recovery's delete among the backend calls of the call in flight
DeleteAt == CHOOSE k \in 1..Len(wr.calls) : wr.calls[k].call = "delete"

\* C14: once the recovery's delete has been issued, whether it deleted the old
\* object ("yes"), found nothing to delete ("no") or raised, the next backend
\* call is the store of the new content under the caller's session, and the
\* call ends as the re-creation does: with the error of the store or of its
\* metadata read-back when one of them fails, with the new descriptor otherwise.
C14_DeleteNeverBlocks ==
    wr.deleted /= "n/a" =>
        LET k == DeleteAt IN
        /\ wr.pc = "store" <=> Len(wr.calls) = k
        /\ wr.pc /= "store" =>
              /\ wr.calls[k + 1].call = "store"
              /\ wr.art_id \in DOMAIN objects => objects[wr.art_id].session_id = wr.sess
        /\ wr.pc = "done" =>
              IF wr.calls[k + 1].out /= "ok"
              THEN wr.resp.status = "error" /\ wr.resp.error = wr.calls[k + 1].out
              ELSE IF wr.calls[k + 2].out /= "ok"
              THEN wr.resp.status = "error" /\ wr.resp.error = wr.calls[k + 2].out
              ELSE /\ wr.resp.status = "ok"
                   /\ wr.resp.artifact_id = wr.art_id
                   /\ wr.resp.session_id = wr.sess

\* the delete raised and the call returned the re-created artefact all the same
C14_Witness ==
    /\ wr.pc = "done"
    /\ wr.deleted = "raised"
    /\ wr.resp.status = "ok"
    /\ wr.ow \in DOMAIN objects /\ wr.art_id \in DOMAIN objects

====
